---- MODULE Spec2Model ----
(***************************************************************************)
(* Model of the conversational-search decision engine of agent_persuasion: *)
(* the trigger classifier (rag-trigger.ts), the evidence filters           *)
(* (pinecone.client.ts), the prompt composer (conversational-search.ts),   *)
(* the zustand store (store-conversational-search) and the per-turn        *)
(* pipeline of runAssistantUpdatingState (chat.ts).                        *)
(*                                                                         *)
(* Conventions.  An optional value (undefined / null in the source) is a   *)
(* sequence of length 0 or 1: None is <<>>, Some(x) is <<x>>.  A user      *)
(* message is a sequence of words; the string it stands for is the words   *)
(* joined by single blanks, so the empty word "" yields leading, trailing  *)
(* or doubled blanks.  A regular expression of the form                    *)
(* /(?:a|b).*(?:c|d)/i is a sequence of sets of alternatives; it matches   *)
(* when occurrences of one alternative per set can be found left to right  *)
(* without overlap.  Occurrences lists, for every word of Vocabulary,      *)
(* where each alternative occurs inside it; no alternative spans two       *)
(* words of Vocabulary, so the match is exact on Messages.                 *)
(***************************************************************************)
EXTENDS Integers, Sequences, FiniteSets, TLC

VARIABLES
    isEnabled,      \* store.isEnabled
    searchState,    \* store.searchState (None = null)
    isLoading,      \* store.isLoading
    error,          \* store.error (None = null)
    pc,             \* position of runAssistantUpdatingState
    turn,           \* locals of the running turn
    pre,            \* store.searchState when the turn started
    inp,            \* arguments of a function applied alone
    out             \* its result (None until applied)

vars == <<isEnabled, searchState, isLoading, error, pc, turn, pre, inp, out>>

storeVars == <<isEnabled, searchState, isLoading, error>>

turnVars == <<pc, turn, pre>>

fnVars == <<inp, out>>

None == <<>>

Some(x) == <<x>>

\* ---------------------------------------------------------------- bounds

MaxWords == 3

MaxResponseLen == 4

MaxSnippets == 2

MaxTurns == 3

\* ------------------------------------------------------- user messages

Vocabulary == {"", "ok", "just", "think", "want", "evidence", "unsure", "what"}

Messages == UNION {[1..n -> Vocabulary] : n \in 0..MaxWords}

evidencePatterns ==
    <<
       << {"show", "provide", "give", "need", "want", "can", "could", "would", "have", "has"},
          {"evidence", "data", "research", "study", "source", "proof", "support", "statistics", "survey", "information", "facts"} >>,
       << {"evidence", "data", "research", "study", "source", "proof", "support", "statistics", "survey", "information", "facts"},
          {"show", "provide", "give", "need", "want", "have", "has"} >>,
       << {"what", "which"},
          {"evidence", "data", "research", "study", "source", "proof", "support", "information", "facts"} >>,
       << {"based on", "according to", "according", "cite", "citation", "reference"} >>,
       << {"can you", "could you", "please"},
          {"show", "provide", "give"},
          {"evidence", "data", "research", "study", "source", "proof", "support", "statistics", "survey"} >>
    >>

uncertaintyPatterns ==
    <<
       << {"i", "we", "i'm", "we're"},
          {"don't", "do not", "not"},
          {"know", "understand", "sure", "certain", "clear"} >>,
       << {"don't", "do not"},
          {"know", "understand", "sure", "certain", "clear"} >>,
       << {"what", "which", "how", "why"},
          {"is", "are", "do", "does", "did"} >>,
       << {"uncertain", "unsure", "not sure", "don't know", "unclear", "confused", "unsure about"} >>,
       << {"i'm not", "i am not", "we're not", "we are not"},
          {"sure", "certain", "clear"} >>,
       << {"what", "which", "how", "why"},
          {"about", "regarding", "concerning"} >>,
       << {"tell me", "explain", "help me understand"},
          {"what", "which", "how", "why"} >>
    >>

opinionPatterns ==
    <<
       << {"i", "we"},
          {"just", "simply", "only"},
          {"think", "feel", "believe", "want", "prefer"} >>,
       << {"just", "simply", "only"},
          {"think", "feel", "believe", "want", "prefer"} >>,
       << {"i", "we"},
          {"think", "feel", "believe"},
          {"that", "it", "this"},
          {"is", "are", "should", "shouldn't"} >>,
       << {"i", "we"},
          {"don't", "do not"},
          {"need", "want"},
          {"evidence", "proof", "data", "research"} >>
    >>

substantiveQuestionPatterns ==
    <<
       << {"what", "how", "why", "which", "when", "where", "who"},
          {"about", "regarding", "concerning", "related to"} >>,
       << {"can you", "could you", "please"},
          {"explain", "tell me", "show me", "help me understand"} >>,
       << {"i want", "i need", "i'd like"},
          {"to know", "to understand", "to learn"} >>
    >>

skepticismPatterns ==
    <<
       << {"really", "actually", "is that", "are you sure", "how do you know", "what makes you think"} >>,
       << {"i doubt", "i'm skeptical", "i'm not convinced", "i don't believe"} >>,
       << {"prove", "show me", "demonstrate", "back up", "support"},
          {"that", "your", "this", "it"} >>,
       << {"where", "what", "which"},
          {"proof", "evidence", "data", "source", "study", "research"} >>,
       << {"need", "want", "require"},
          {"more", "additional", "further"},
          {"information", "data", "evidence", "proof"} >>,
       << {"i need", "i want", "i require"},
          {"to see", "to know", "evidence", "data", "proof"} >>,
       << {"but", "however", "although"},
          {"is", "are", "do", "does", "can", "could"} >>,
       << {"what about", "how about", "what if"},
          {"the", "this", "that", "it"} >>,
       << {"source", "reference", "citation", "where did you get", "where is this from"} >>
    >>

evaluationPatterns ==
    <<
       << {"according to", "based on", "studies show", "research indicates", "data suggests"} >>,
       << {"statistics", "statistical", "percentage", "percent", "study", "studies", "research"} >>
    >>

askingPatterns ==
    <<
       << {"what", "which", "how many", "how much", "what percentage", "what data"} >>,
       << {"show", "tell", "give", "provide"},
          {"me", "us"} >>
    >>

Occurrences ==
    "" :> {} @@
    "ok" :> {} @@
    "just" :> {<<"just", 0, 4>>, <<"us", 1, 3>>} @@
    "think" :> {<<"i", 2, 3>>, <<"think", 0, 5>>} @@
    "want" :> {<<"want", 0, 4>>} @@
    "evidence" :> {<<"evidence", 0, 8>>, <<"i", 2, 3>>} @@
    "unsure" :> {<<"sure", 2, 6>>, <<"unsure", 0, 6>>} @@
    "what" :> {<<"what", 0, 4>>}

WordLen ==
    "" :> 0 @@ "ok" :> 2 @@ "just" :> 4 @@ "think" :> 5 @@ "want" :> 4 @@ "evidence" :> 8 @@ "unsure" :> 6 @@ "what" :> 4

\* String.prototype.length of the joined words.
RECURSIVE JoinedLength(_)
JoinedLength(msg) ==
    IF msg = <<>> THEN 0
    ELSE IF Len(msg) = 1 THEN WordLen[msg[1]]
    ELSE WordLen[Head(msg)] + 1 + JoinedLength(Tail(msg))

\* String.prototype.trim: leading and trailing blanks are removed.
RECURSIVE TrimLeft(_)
TrimLeft(msg) ==
    IF msg # <<>> /\ Head(msg) = "" THEN TrimLeft(Tail(msg)) ELSE msg

RECURSIVE TrimRight(_)
TrimRight(msg) ==
    IF msg # <<>> /\ msg[Len(msg)] = ""
    THEN TrimRight(SubSeq(msg, 1, Len(msg) - 1))
    ELSE msg

trim(msg) == TrimRight(TrimLeft(msg))

\* Offset of word i in the joined string.
RECURSIVE Offset(_, _)
Offset(msg, i) ==
    IF i = 1 THEN 0 ELSE Offset(msg, i - 1) + WordLen[msg[i - 1]] + 1

OccurrencesIn(msg) ==
    UNION { { <<o[1], Offset(msg, i) + o[2], Offset(msg, i) + o[3]>> :
                o \in Occurrences[msg[i]] } : i \in 1..Len(msg) }

RECURSIVE MatchFrom(_, _, _, _)
MatchFrom(msg, pattern, k, pos) ==
    IF k > Len(pattern) THEN TRUE
    ELSE \E o \in OccurrencesIn(msg) :
            /\ o[1] \in pattern[k]
            /\ o[2] >= pos
            /\ MatchFrom(msg, pattern, k + 1, o[3])

\* RegExp.prototype.test
test(pattern, msg) == MatchFrom(msg, pattern, 1, 0)

\* patterns.some(pattern => pattern.test(userMessage))
somePattern(patterns, msg) == \E i \in 1..Len(patterns) : test(patterns[i], msg)

isAskingForEvidence(userMessage) == somePattern(evidencePatterns, userMessage)

isExpressingUncertainty(userMessage) == somePattern(uncertaintyPatterns, userMessage)

isExpressingClearOpinion(userMessage) == somePattern(opinionPatterns, userMessage)

MinSubstantialLength == 5

Strategies == {"suggestion", "clarification"}

Standpoints == {"supporting", "opposing"}

\* clarificationState?: {isAwaitingClarification, isReadyForSearch}
ClarificationStates ==
    {None} \cup { Some([isAwaitingClarification |-> a, isReadyForSearch |-> r]) :
                    a \in BOOLEAN, r \in BOOLEAN }

\* The evaluator with the evidence-request check made before the opinion check.
shouldTriggerRAGWithKeywords_EvidenceFirst(userMessage, strategy, clarificationState, needsSupport) ==
    IF isAskingForEvidence(userMessage) THEN TRUE
    ELSE IF isExpressingClearOpinion(userMessage) THEN FALSE
    ELSE IF isExpressingUncertainty(userMessage) THEN TRUE
    ELSE IF strategy = "clarification" THEN
        clarificationState # None /\ clarificationState[1].isReadyForSearch
    ELSE IF strategy = "suggestion" THEN
        needsSupport \/ JoinedLength(trim(userMessage)) >= MinSubstantialLength
    ELSE FALSE

\* The evaluator refusing whenever the session is awaiting.
shouldTriggerRAGWithKeywords_AwaitingBlocks(userMessage, strategy, clarificationState, needsSupport) ==
    IF isExpressingClearOpinion(userMessage) THEN FALSE
    ELSE IF isAskingForEvidence(userMessage) THEN TRUE
    ELSE IF isExpressingUncertainty(userMessage) THEN TRUE
    ELSE IF strategy = "clarification" THEN
        IF clarificationState # None
        THEN IF clarificationState[1].isAwaitingClarification
             THEN FALSE
             ELSE clarificationState[1].isReadyForSearch
        ELSE FALSE
    ELSE IF strategy = "suggestion" THEN
        IF needsSupport THEN TRUE
        ELSE JoinedLength(trim(userMessage)) >= MinSubstantialLength
    ELSE FALSE

\* The evaluator asking for more than five characters.
shouldTriggerRAGWithKeywords_StrictLength(userMessage, strategy, clarificationState, needsSupport) ==
    IF isExpressingClearOpinion(userMessage) THEN FALSE
    ELSE IF isAskingForEvidence(userMessage) THEN TRUE
    ELSE IF isExpressingUncertainty(userMessage) THEN TRUE
    ELSE IF strategy = "clarification" THEN
        IF clarificationState # None
        THEN IF clarificationState[1].isAwaitingClarification
                /\ ~clarificationState[1].isReadyForSearch
             THEN FALSE
             ELSE clarificationState[1].isReadyForSearch
        ELSE FALSE
    ELSE IF strategy = "suggestion" THEN
        IF needsSupport THEN TRUE
        ELSE JoinedLength(trim(userMessage)) > MinSubstantialLength
    ELSE FALSE

shouldTriggerRAGWithKeywords(userMessage, strategy, clarificationState, needsSupport) ==
    IF isExpressingClearOpinion(userMessage) THEN FALSE
    ELSE IF isAskingForEvidence(userMessage) THEN TRUE
    ELSE IF isExpressingUncertainty(userMessage) THEN TRUE
    ELSE IF strategy = "clarification" THEN
        IF clarificationState # None
        THEN IF clarificationState[1].isAwaitingClarification
                /\ ~clarificationState[1].isReadyForSearch
             THEN FALSE
             ELSE clarificationState[1].isReadyForSearch
        ELSE FALSE
    ELSE IF strategy = "suggestion" THEN
        IF needsSupport THEN TRUE
        ELSE JoinedLength(trim(userMessage)) >= MinSubstantialLength
    ELSE FALSE

needsFactualSupport(userMessage, hasRetrievedContext) ==
    IF ~hasRetrievedContext /\ somePattern(substantiveQuestionPatterns, userMessage)
    THEN TRUE
    ELSE IF somePattern(skepticismPatterns, userMessage) THEN TRUE
    ELSE somePattern(evaluationPatterns, userMessage)
            /\ somePattern(askingPatterns, userMessage)

\* ------------------------------------------------- model-based classifier

\* A model response is a sequence of tokens; "shouldTrigger:" stands for the
\* quoted key followed by its colon.
ResponseTokens == {"{", "}", "shouldTrigger:", "true", "false", "True"}

Responses == UNION {[1..n -> ResponseTokens] : n \in 0..MaxResponseLen}

Return(v) == [threw |-> FALSE, value |-> v]

Throw == [threw |-> TRUE, value |-> FALSE]

\* content.match(/\{[\s\S]*\}/): from the first "{" to the last "}" after it.
jsonMatch(content) ==
    LET opens  == {i \in 1..Len(content) : content[i] = "{"}
        first  == CHOOSE i \in opens : \A j \in opens : i <= j
        closes == {i \in 1..Len(content) : content[i] = "}" /\ i > first}
        last   == CHOOSE i \in closes : \A j \in closes : i >= j
    IN  IF opens = {} THEN None
        ELSE IF closes = {} THEN None
        ELSE Some(SubSeq(content, first, last))

\* The JSON grammar over ResponseTokens: a value is true, false or an object;
\* an object is {} or {"shouldTrigger": value}.
RECURSIVE IsJsonValue(_)
IsJsonValue(s) ==
    \/ s = <<"true">>
    \/ s = <<"false">>
    \/ s = <<"{", "}">>
    \/ /\ Len(s) >= 4
       /\ s[1] = "{"
       /\ s[2] = "shouldTrigger:"
       /\ s[Len(s)] = "}"
       /\ IsJsonValue(SubSeq(s, 3, Len(s) - 1))

\* JSON.parse(text).shouldTrigger === true, or the SyntaxError it throws.
parsedShouldTrigger(text) ==
    IF IsJsonValue(text)
    THEN Return(text = <<"{", "shouldTrigger:", "true", "}">>)
    ELSE Throw

toLowerCase(tok) == IF tok = "True" THEN "true" ELSE tok

\* content.toLowerCase().includes(literal)
includesLower(content, literal) ==
    \E i \in 1..Len(content) : toLowerCase(content[i]) = literal

\* The try block of shouldTriggerRAGWithLLM; response = None when
\* callChatGenerate rejects.
llmTryBlock(userMessage, strategy, clarificationState, needsSupport, response) ==
    IF response = None THEN Throw
    ELSE LET content == response[1] IN
         IF jsonMatch(content) # None THEN parsedShouldTrigger(jsonMatch(content)[1])
         ELSE IF includesLower(content, "true") THEN Return(TRUE)
         ELSE IF includesLower(content, "false") THEN Return(FALSE)
         ELSE Return(shouldTriggerRAGWithKeywords(userMessage, strategy,
                         clarificationState, needsSupport))

shouldTriggerRAGWithLLM_NoCatch(userMessage, strategy, clarificationState, needsSupport, response) ==
    llmTryBlock(userMessage, strategy, clarificationState, needsSupport, response)

shouldTriggerRAGWithLLM(userMessage, strategy, clarificationState, needsSupport, response) ==
    LET r == llmTryBlock(userMessage, strategy, clarificationState, needsSupport, response)
    IN  IF r.threw
        THEN Return(shouldTriggerRAGWithKeywords(userMessage, strategy,
                        clarificationState, needsSupport))
        ELSE r

\* llmId is TRUE when a model handle is supplied.
shouldTriggerRAG(userMessage, strategy, clarificationState, needsSupport, llmId, response) ==
    IF llmId
    THEN shouldTriggerRAGWithLLM(userMessage, strategy, clarificationState,
                                 needsSupport, response)
    ELSE Return(shouldTriggerRAGWithKeywords(userMessage, strategy,
                    clarificationState, needsSupport))

\* ------------------------------------------------------ evidence snippets

\* score is in tenths (7 is 0.7); stance is reference.file.metadata.stance
\* and name is reference.file.name, "" when absent.
Scores == {5, 7, 9}

FileNames == {"", "a.pdf", "[supporting]a.pdf", "[opposing]a.pdf"}

Snippets == [score : Scores, stance : {""} \cup Standpoints, name : FileNames]

SnippetLists == UNION {[1..n -> Snippets] : n \in 0..MaxSnippets}

\* The default of filterSnippetsByScore's minScore, 0.7.
DefaultMinScore == 7

\* The filter with a loop that stops before the last snippet.
filterSnippetsByScore_SkipsLast(snippets, minScore) ==
    SelectSeq(SubSeq(snippets, 1, Len(snippets) - 1), LAMBDA s : s.score >= minScore)

filterSnippetsByScore(snippets, minScore) ==
    SelectSeq(snippets, LAMBDA s : s.score >= minScore)

\* fileName.match(/^\[(supporting|opposing)\]/): the captured stance, "" when
\* the name has no such prefix.
stanceMatch(fileName) ==
    IF fileName = "[supporting]a.pdf" THEN "supporting"
    ELSE IF fileName = "[opposing]a.pdf" THEN "opposing"
    ELSE ""

\* The filter retrieveContextForQuery uses: stance from the metadata, else
\* from the file name, else the snippet is dropped.
filterSnippetsByStandpoint(snippets, standpoint) ==
    SelectSeq(snippets, LAMBDA s :
        IF s.stance # "" THEN s.stance = standpoint
        ELSE IF s.name # "" /\ stanceMatch(s.name) # ""
             THEN stanceMatch(s.name) = standpoint
             ELSE FALSE)

\* The metadata-only variant, which keeps a snippet without stance metadata.
filterSnippetsByStandpointMetadata(snippets, standpoint) ==
    SelectSeq(snippets, LAMBDA s :
        IF s.stance = "" THEN TRUE ELSE s.stance = standpoint)

\* retrieveContextForQuery after the backend has answered with snippets.
retrieveContextForQuery(snippets, standpoint, enableScoreFiltering) ==
    LET filteredSnippets ==
            IF enableScoreFiltering
            THEN filterSnippetsByScore(snippets, DefaultMinScore)
            ELSE snippets
    IN  filterSnippetsByStandpoint(filteredSnippets, standpoint)

\* ----------------------------------------------------------- system prompt

\* A prompt is the sequence of its text blocks; the text a template
\* interpolates is a block of its own.
Topics == {"General Conversation", "Phones in schools"}

STANDPOINT_CONCEALMENT_RULE ==
    "IMPORTANT: DO NOT reveal or explicitly state your standpoint. [...]"

getStrategyInstructions(strategy) ==
    IF strategy = "suggestion" THEN "STRATEGY_CONFIG.suggestion.instructions"
    ELSE "STRATEGY_CONFIG.clarification.instructions"

getStandpointInstructions(standpoint) ==
    IF standpoint = "supporting" THEN "STANDPOINT_CONFIG.supporting.instructions"
    ELSE "STANDPOINT_CONFIG.opposing.instructions"

\* score.toFixed(4) of a score in tenths.
toFixed4(score) ==
    IF score = 5 THEN "0.5000" ELSE IF score = 7 THEN "0.7000" ELSE "0.9000"

sourceInfo(snippet) ==
    IF snippet.name # "" THEN <<"[Source: ", snippet.name, "]">>
    ELSE <<"[Source: Unknown]">>

RECURSIVE formatFrom(_, _)
formatFrom(snippets, index) ==
    IF index > Len(snippets) THEN <<>>
    ELSE (IF index > 1 THEN <<"---">> ELSE <<>>)
         \o <<"Context ", ToString(index), " (Score: ",
              toFixed4(snippets[index].score), "):">>
         \o sourceInfo(snippets[index])
         \o <<"snippet.content">>
         \o formatFrom(snippets, index + 1)

formatSnippetsForPrompt(snippets) ==
    IF Len(snippets) = 0 THEN <<"No relevant context found.">>
    ELSE formatFrom(snippets, 1)

TemplateHeader(topic) ==
    <<"You are a persuasive conversational AI assistant discussing the controversial topic: ",
      topic>>

TemplateRoleDescription(standpoint, topic, strategyInstructions) ==
    <<"Your Mission: - Standpoint: You ",
      IF standpoint = "supporting" THEN "SUPPORT" ELSE "OPPOSE",
      " the topic ", topic,
      "- Goal: Persuade the user [...] - Strategy: ", strategyInstructions,
      "Remember: The user may hold views opposing or supporting this topic. [...]">>

TemplateContextIntro == <<"Retrieved Evidence: [...]">>

TemplateInstructions(strategy) ==
    <<"Task Instructions: [...] STRATEGY EXECUTION (", strategy,
      "): [...] CRITICAL RULES: [...]">>

generateSystemPrompt(state, retrievedContext) ==
    TemplateHeader(state.topic)
    \o TemplateRoleDescription(state.standpoint, state.topic,
                               getStrategyInstructions(state.strategy))
    \o <<getStandpointInstructions(state.standpoint)>>
    \o TemplateContextIntro
    \o formatSnippetsForPrompt(retrievedContext)
    \o TemplateInstructions(state.strategy)

\* ------------------------------------------------------------ the session

\* ConversationStats of a new session.
InitialStats ==
    [searchTriggerCount |-> 0, clarificationQuestionCount |-> 0,
     suggestionCount |-> 0, conversationTurns |-> 0]

\* The new session given a default clarification state whatever its strategy.
initializeSearchState_WithClarificationState(topic, standpoint, strategy) ==
    [topic |-> topic, standpoint |-> standpoint, strategy |-> strategy,
     dialogueHistory |-> <<>>, lastRetrievedContext |-> None,
     stats |-> InitialStats,
     clarificationState |-> Some([isAwaitingClarification |-> FALSE,
                                  isReadyForSearch |-> FALSE])]

initializeSearchState(topic, standpoint, strategy) ==
    [topic |-> topic, standpoint |-> standpoint, strategy |-> strategy,
     dialogueHistory |-> <<>>, lastRetrievedContext |-> None,
     stats |-> InitialStats, clarificationState |-> None]

ActionsTaken ==
    [searched : BOOLEAN, askedClarification : BOOLEAN, providedSuggestion : BOOLEAN]

\* How a turn's action changes the clarification state: a search makes the
\* session ready and no longer awaiting, a clarification question makes it
\* awaiting.  actionTaken is None when the turn reported no action.
foldClarificationState(state, actionTaken) ==
    IF state.strategy # "clarification" \/ actionTaken = None
    THEN state.clarificationState
    ELSE IF actionTaken[1].searched
    THEN Some([isAwaitingClarification |-> FALSE, isReadyForSearch |-> TRUE])
    ELSE IF actionTaken[1].askedClarification
    THEN Some([isAwaitingClarification |-> TRUE,
               isReadyForSearch |->
                   IF state.clarificationState = None THEN FALSE
                   ELSE state.clarificationState[1].isReadyForSearch])
    ELSE state.clarificationState

\* The update that rebuilds clarificationState with both flags off.
updateSearchState_ResetsFlags(state, userQuery, assistantResponse, retrievedContext, actionTaken) ==
    [state EXCEPT
        !.dialogueHistory = state.dialogueHistory
                              \o << <<"User: ", userQuery>>,
                                    <<"Assistant: ", assistantResponse>> >>,
        !.lastRetrievedContext = IF retrievedContext # None THEN retrievedContext
                                 ELSE state.lastRetrievedContext,
        !.clarificationState =
            IF state.strategy = "clarification"
            THEN Some([isAwaitingClarification |-> FALSE, isReadyForSearch |-> FALSE])
            ELSE state.clarificationState]

\* retrievedContext is None for undefined; an empty array is truthy.
\* The update that rebuilds the session with the default strategy.
updateSearchState_DefaultStrategy(state, userQuery, assistantResponse, retrievedContext, actionTaken) ==
    [state EXCEPT
        !.strategy = "suggestion",
        !.dialogueHistory = state.dialogueHistory
                              \o << <<"User: ", userQuery>>,
                                    <<"Assistant: ", assistantResponse>> >>,
        !.lastRetrievedContext = IF retrievedContext # None THEN retrievedContext
                                 ELSE state.lastRetrievedContext,
        !.clarificationState = foldClarificationState(state, actionTaken)]

\* The update with the two new entries in the wrong order.
updateSearchState_AssistantFirst(state, userQuery, assistantResponse, retrievedContext, actionTaken) ==
    [state EXCEPT
        !.dialogueHistory = state.dialogueHistory
                              \o << <<"Assistant: ", assistantResponse>>,
                                    <<"User: ", userQuery>> >>,
        !.lastRetrievedContext = IF retrievedContext # None THEN retrievedContext
                                 ELSE state.lastRetrievedContext,
        !.clarificationState = foldClarificationState(state, actionTaken)]

updateSearchState(state, userQuery, assistantResponse, retrievedContext, actionTaken) ==
    [state EXCEPT
        !.dialogueHistory = state.dialogueHistory
                              \o << <<"User: ", userQuery>>,
                                    <<"Assistant: ", assistantResponse>> >>,
        !.lastRetrievedContext = IF retrievedContext # None THEN retrievedContext
                                 ELSE state.lastRetrievedContext,
        !.clarificationState = foldClarificationState(state, actionTaken)]

\* ------------------------------------------------------- the turn's policy

MinClearQuestionLength == 10

\* False below ten characters, true with an interrogative word; otherwise the
\* answer is left open and taken from isClear.
isQuestionClear(userMessage, isClear) ==
    IF JoinedLength(trim(userMessage)) < MinClearQuestionLength THEN FALSE
    ELSE IF \E i \in 1..Len(userMessage) : userMessage[i] = "what" THEN TRUE
    ELSE isClear

\* determineConversationAction(userMessage, state, llmId).  response is what
\* the classification call answers; isQuestion and isClear are the answers of
\* looksLikeClearQuestion and of isQuestionClear where it is left open.
\* classifierResult is the classifier's answer, None when it was not asked.
determineConversationAction(userMessage, state, response, isQuestion, isClear) ==
    LET hasContext == state.lastRetrievedContext # None
                        /\ state.lastRetrievedContext[1] # <<>>
        isSubstantial == JoinedLength(trim(userMessage)) >= MinSubstantialLength
        classify(cs, support) ==
            shouldTriggerRAG(userMessage, state.strategy, cs, support, TRUE, response).value
        \* the decision made with the classifier's answer c
        classified(c, ask, suggest) ==
            [shouldSearch |-> c, shouldAskClarification |-> ask /\ ~c,
             shouldProvideSuggestion |-> suggest, classifierResult |-> Some(c)]
        unclassified(search, ask, suggest) ==
            [shouldSearch |-> search, shouldAskClarification |-> ask,
             shouldProvideSuggestion |-> suggest, classifierResult |-> None]
    IN  IF state.strategy = "suggestion" THEN
            IF ~hasContext /\ isSubstantial THEN unclassified(TRUE, FALSE, TRUE)
            ELSE classified(classify(None, needsFactualSupport(userMessage, hasContext)
                                             \/ isQuestion \/ isSubstantial),
                            FALSE, TRUE)
        ELSE IF state.clarificationState = None THEN unclassified(FALSE, TRUE, FALSE)
        ELSE IF state.clarificationState[1].isAwaitingClarification
                /\ ~state.clarificationState[1].isReadyForSearch THEN
            classified(classify(state.clarificationState, FALSE), TRUE, FALSE)
        ELSE IF ~isQuestionClear(userMessage, isClear) THEN unclassified(FALSE, TRUE, FALSE)
        ELSE classified(classify(state.clarificationState, FALSE), FALSE, FALSE)

DefaultTopic == "General Conversation"

NoInterference == [session |-> None, interfered |-> FALSE]

\* The locals of a turn of runAssistantUpdatingState.
IdleTurn ==
    [lastUserMessage |-> <<>>,            \* history's last user message
     state |-> None,                      \* processUserMessageWithSearch's state
     searchStateAtSearch |-> None,        \* performSearch's searchState
     retrieval |-> "none",                \* none, pending, ok, failed
     aborted |-> FALSE,                   \* controller.signal.aborted
     classifierResult |-> None,           \* shouldTriggerRAG's answer, when asked
     searchResult |-> None,               \* processUserMessageWithSearch's result
     actionTaken |-> None,
     retrievedContextForState |-> None,
     enhancedHistory |-> <<>>,            \* the system message sent to the model
     assistantResponseText |-> <<>>]

\* A store operation of the user interface while a turn is running.
\* A store operation between two turns finds no turn; one made while a turn
\* is in flight is remembered by that turn. At most one store operation is
\* explored per turn in flight.
Interfere ==
    /\ (pc = "idle" \/ ~pre.interfered)
    /\ IF pc = "idle"
       THEN turn' = IdleTurn /\ pre' = NoInterference
       ELSE turn' = turn /\ pre' = [session |-> None, interfered |-> TRUE]
    /\ UNCHANGED <<pc, fnVars>>

setEnabled(enabled) ==
    /\ isEnabled' = enabled
    /\ IF enabled THEN UNCHANGED <<searchState, error>>
       ELSE searchState' = None /\ error' = None
    /\ UNCHANGED isLoading
    /\ Interfere

initializeSearch(topic, standpoint, strategy) ==
    /\ searchState' = Some(initializeSearchState(topic, standpoint, strategy))
    /\ error' = None
    /\ UNCHANGED <<isEnabled, isLoading>>
    /\ Interfere

resetSearch ==
    /\ searchState' = None
    /\ error' = None
    /\ isLoading' = FALSE
    /\ UNCHANGED isEnabled
    /\ Interfere

\* --------------------------------------------------------------- the turn

\* The system message updatePurposeInHistory gives when the turn is not
\* enhanced.
PurposePrompt == <<"updatePurposeInHistory(conversationId, history)">>

\* What processUserMessageWithSearch returns.
NotEnhanced ==
    [shouldEnhance |-> FALSE, enhancedSystemMessage |-> <<>>, context |-> <<>>,
     actionTaken |-> None]

Enhanced(systemPrompt, context, actionTaken) ==
    [shouldEnhance |-> TRUE, enhancedSystemMessage |-> systemPrompt,
     context |-> context, actionTaken |-> Some(actionTaken)]

\* The action with the two flags exchanged.
actionTakenWithoutSearch_Swapped(action) ==
    [searched |-> FALSE, askedClarification |-> action.shouldProvideSuggestion,
     providedSuggestion |-> action.shouldAskClarification]

actionTakenWithoutSearch(action) ==
    [searched |-> FALSE, askedClarification |-> action.shouldAskClarification,
     providedSuggestion |-> action.shouldProvideSuggestion]

\* The stats with conversationTurns counted only for a turn that has an action.
updatedStats_CountsOnlyActions(currentStats, actionTaken) ==
    LET flag(f) == actionTaken # None /\ actionTaken[1][f]
    IN  [conversationTurns |-> currentStats.conversationTurns
                                  + (IF actionTaken # None THEN 1 ELSE 0),
         searchTriggerCount |-> currentStats.searchTriggerCount
                                  + (IF flag("searched") THEN 1 ELSE 0),
         clarificationQuestionCount |-> currentStats.clarificationQuestionCount
                                  + (IF flag("askedClarification") THEN 1 ELSE 0),
         suggestionCount |-> currentStats.suggestionCount
                                  + (IF flag("providedSuggestion") THEN 1 ELSE 0)]

\* The stats of the turn: conversationTurns always, each other counter when
\* the turn's action says so.
updatedStats(currentStats, actionTaken) ==
    LET flag(f) == actionTaken # None /\ actionTaken[1][f]
    IN  [conversationTurns |-> currentStats.conversationTurns + 1,
         searchTriggerCount |-> currentStats.searchTriggerCount
                                  + (IF flag("searched") THEN 1 ELSE 0),
         clarificationQuestionCount |-> currentStats.clarificationQuestionCount
                                  + (IF flag("askedClarification") THEN 1 ELSE 0),
         suggestionCount |-> currentStats.suggestionCount
                                  + (IF flag("providedSuggestion") THEN 1 ELSE 0)]

\* runAssistantUpdatingState once processUserMessageWithSearch has returned
\* searchResult, the store holding current: the stats are written to the store
\* and the turn's system message is chosen; the stream starts next.
AfterSearchResult(t, current, searchResult) ==
    /\ searchState' =
          IF current = None THEN None
          ELSE Some([current[1] EXCEPT
                       !.stats = updatedStats(current[1].stats, searchResult.actionTaken)])
    /\ turn' =
          [t EXCEPT
             !.state = None,
             !.searchStateAtSearch = None,
             !.searchResult = Some(searchResult),
             !.actionTaken = IF current = None THEN None ELSE searchResult.actionTaken,
             !.retrievedContextForState =
                 IF /\ searchResult.shouldEnhance
                    /\ current # None
                    /\ searchResult.actionTaken # None
                    /\ searchResult.actionTaken[1].searched
                 THEN Some(searchResult.context)
                 ELSE None,
             !.enhancedHistory =
                 IF searchResult.shouldEnhance THEN searchResult.enhancedSystemMessage
                 ELSE PurposePrompt]
    /\ pc' = "stream"

\* The bound on a session's turns.
CanStartTurn ==
    IF searchState = None THEN TRUE
    ELSE /\ searchState[1].stats.conversationTurns < MaxTurns
         /\ Len(searchState[1].dialogueHistory) < 2 * MaxTurns

\* runAssistantUpdatingState up to the first await of the turn.
SubmitMessage(userMessage) ==
    /\ pc = "idle"
    /\ CanStartTurn
    /\ pre' = [session |-> searchState, interfered |-> FALSE]
    /\ LET t == [IdleTurn EXCEPT !.lastUserMessage = userMessage] IN
       IF JoinedLength(userMessage) = 0
       THEN /\ turn' = [t EXCEPT !.enhancedHistory = PurposePrompt]
            /\ pc' = "stream"
            /\ UNCHANGED searchState
       ELSE IF ~isEnabled \/ searchState = None
       THEN AfterSearchResult(t, searchState, NotEnhanced)
       ELSE /\ turn' = [t EXCEPT !.state = searchState]
            /\ pc' = "classify"
            /\ UNCHANGED searchState
    /\ UNCHANGED <<isEnabled, isLoading, error, fnVars>>

\* Step 2 of processUserMessageWithSearch with the branch on shouldSearch
\* lost: the turn goes on without a search.
ExecuteAction_SkipsSearch(t, state, action) ==
    /\ AfterSearchResult(t, searchState,
            Enhanced(generateSystemPrompt(state, <<>>), <<>>,
                     actionTakenWithoutSearch(action)))
    /\ UNCHANGED <<isLoading, error>>

\* Step 2 of processUserMessageWithSearch with the search made whatever the
\* decision.
ExecuteAction_AlwaysSearches(t, state, action) ==
    IF searchState = None
    THEN /\ AfterSearchResult(t, searchState, NotEnhanced)
         /\ UNCHANGED <<isLoading, error>>
    ELSE /\ isLoading' = TRUE
         /\ error' = None
         /\ turn' = [t EXCEPT !.searchStateAtSearch = searchState,
                              !.retrieval = "pending"]
         /\ pc' = "retrieve"
         /\ UNCHANGED searchState

\* Step 2 of processUserMessageWithSearch: a search starts (performSearch up
\* to its await) or the turn goes on without one.
ExecuteAction(t, state, action) ==
    IF action.shouldSearch
    THEN IF searchState = None
         THEN \* performSearch throws: search state not initialized
              /\ AfterSearchResult(t, searchState, NotEnhanced)
              /\ UNCHANGED <<isLoading, error>>
         ELSE /\ isLoading' = TRUE
              /\ error' = None
              /\ turn' = [t EXCEPT !.searchStateAtSearch = searchState,
                                   !.retrieval = "pending"]
              /\ pc' = "retrieve"
              /\ UNCHANGED searchState
    ELSE /\ AfterSearchResult(t, searchState,
                 Enhanced(generateSystemPrompt(state, <<>>), <<>>,
                          actionTakenWithoutSearch(action)))
         /\ UNCHANGED <<isLoading, error>>

\* determineConversationAction has answered; its action is executed.
Classified(response, isQuestion, isClear) ==
    /\ pc = "classify"
    /\ LET state == turn.state[1]
           action == determineConversationAction(turn.lastUserMessage, state,
                                                 response, isQuestion, isClear)
       IN  ExecuteAction([turn EXCEPT !.classifierResult = action.classifierResult],
                         state, action)
    /\ UNCHANGED <<isEnabled, pre, fnVars>>

\* The search with actionTaken.searched left false.
RetrievalSucceeded_NotSearched(snippets, enableScoreFiltering) ==
    /\ pc = "retrieve"
    /\ LET state == turn.searchStateAtSearch[1]
           context == retrieveContextForQuery(snippets, state.standpoint,
                                              enableScoreFiltering)
       IN  AfterSearchResult(
               [turn EXCEPT !.retrieval = "ok"],
               Some([state EXCEPT !.lastRetrievedContext = Some(context)]),
               Enhanced(generateSystemPrompt(state, context), context,
                        [searched |-> FALSE, askedClarification |-> FALSE,
                         providedSuggestion |-> FALSE]))
    /\ isLoading' = FALSE
    /\ UNCHANGED <<isEnabled, error, pre, fnVars>>

\* The backend has answered performSearch's retrieval with snippets.
RetrievalSucceeded(snippets, enableScoreFiltering) ==
    /\ pc = "retrieve"
    /\ LET state == turn.searchStateAtSearch[1]
           context == retrieveContextForQuery(snippets, state.standpoint,
                                              enableScoreFiltering)
       IN  AfterSearchResult(
               [turn EXCEPT !.retrieval = "ok"],
               Some([state EXCEPT !.lastRetrievedContext = Some(context)]),
               Enhanced(generateSystemPrompt(state, context), context,
                        [searched |-> TRUE, askedClarification |-> FALSE,
                         providedSuggestion |-> FALSE]))
    /\ isLoading' = FALSE
    /\ UNCHANGED <<isEnabled, error, pre, fnVars>>

\* The failure left uncaught: the turn ends with it, the assistant is not run.
RetrievalFailed_EndsTurn ==
    /\ pc = "retrieve"
    /\ error' = Some("Pinecone API error")
    /\ isLoading' = FALSE
    /\ turn' = [turn EXCEPT !.retrieval = "failed", !.state = None,
                            !.searchStateAtSearch = None]
    /\ pc' = "idle"
    /\ UNCHANGED <<isEnabled, searchState, pre, fnVars>>

\* The failure with the session's evidence dropped.
RetrievalFailed_ClearsContext ==
    /\ pc = "retrieve"
    /\ error' = Some("Pinecone API error")
    /\ isLoading' = FALSE
    /\ AfterSearchResult([turn EXCEPT !.retrieval = "failed"],
                         IF searchState = None THEN None
                         ELSE Some([searchState[1] EXCEPT !.lastRetrievedContext = None]),
                         NotEnhanced)
    /\ UNCHANGED <<isEnabled, pre, fnVars>>

\* The backend is unreachable or answers with a non-success status.
RetrievalFailed ==
    /\ pc = "retrieve"
    /\ error' = Some("Pinecone API error")
    /\ isLoading' = FALSE
    /\ AfterSearchResult([turn EXCEPT !.retrieval = "failed"], searchState, NotEnhanced)
    /\ UNCHANGED <<isEnabled, pre, fnVars>>

\* The user stops the turn: controller.abort().
Abort ==
    /\ pc \in {"classify", "retrieve", "stream"}
    /\ ~turn.aborted
    /\ turn' = [turn EXCEPT !.aborted = TRUE]
    /\ UNCHANGED <<storeVars, pc, pre, fnVars>>

\* The text of the assistant's message as the stream delivers it.
StreamedTexts == << <<"ok">> >>

StreamUpdate ==
    /\ pc = "stream"
    /\ ~turn.aborted
    /\ \E i \in 1..Len(StreamedTexts) :
          /\ turn.assistantResponseText = (IF i = 1 THEN <<>> ELSE StreamedTexts[i - 1])
          /\ turn' = [turn EXCEPT !.assistantResponseText = StreamedTexts[i]]
    /\ UNCHANGED <<storeVars, pc, pre, fnVars>>

\* The store's update with the clarification state kept only by a turn that
\* retrieved evidence.
updateHistory_KeepsOnlyWithContext(current, userQuery, assistantResponse, actionTaken, retrievedContext) ==
    IF current = None THEN current
    ELSE LET updatedState ==
                 updateSearchState(current[1], userQuery, assistantResponse,
                     IF retrievedContext # None THEN retrievedContext
                     ELSE current[1].lastRetrievedContext,
                     actionTaken)
         IN  Some(IF retrievedContext # None THEN updatedState
                  ELSE [updatedState EXCEPT !.clarificationState = None])

\* The store's update with the turn's action not passed on.
updateHistory_WithoutAction(current, userQuery, assistantResponse, actionTaken, retrievedContext) ==
    IF current = None THEN current
    ELSE Some(updateSearchState(current[1], userQuery, assistantResponse,
                  IF retrievedContext # None THEN retrievedContext
                  ELSE current[1].lastRetrievedContext,
                  None))

\* store.updateHistory
updateHistory(current, userQuery, assistantResponse, actionTaken, retrievedContext) ==
    IF current = None THEN current
    ELSE Some(updateSearchState(current[1], userQuery, assistantResponse,
                  IF retrievedContext # None THEN retrievedContext
                  ELSE current[1].lastRetrievedContext,
                  actionTaken))

\* updateSearchHistory is called with the turn's message and text.
RecordsTurn ==
    /\ JoinedLength(turn.lastUserMessage) # 0
    /\ turn.assistantResponseText # <<>>
    /\ isEnabled
    /\ searchState # None

\* The stream has ended (completed, failed or aborted): the turn is recorded.
StreamEnded ==
    /\ pc = "stream"
    /\ searchState' =
          IF RecordsTurn
          THEN updateHistory(searchState, turn.lastUserMessage,
                             turn.assistantResponseText, turn.actionTaken,
                             turn.retrievedContextForState)
          ELSE searchState
    /\ pc' = "idle"
    /\ UNCHANGED <<isEnabled, isLoading, error, turn, pre, fnVars>>

\* The inputs of the turns.
TurnMessages == { <<>>, <<"ok">>, <<"what", "evidence">> }

TurnResponses ==
    { None, Some(<<"{", "shouldTrigger:", "true", "}">>),
      Some(<<"{", "shouldTrigger:", "false", "}">>) }

\* The topics sessions are started with.
SessionTopics == {DefaultTopic}

BackendResults ==
    { <<>>,
      <<[score |-> 7, stance |-> "", name |-> "[opposing]a.pdf"],
        [score |-> 5, stance |-> "", name |-> "a.pdf"]>> }

Init ==
    /\ isEnabled = TRUE
    /\ searchState = Some(initializeSearchState(DefaultTopic, "supporting", "suggestion"))
    /\ isLoading = FALSE
    /\ error = None
    /\ pc = "idle"
    /\ turn = IdleTurn
    /\ pre = NoInterference
    /\ inp = None
    /\ out = None

Next ==
    \/ \E enabled \in BOOLEAN : setEnabled(enabled)
    \/ \E topic \in SessionTopics, standpoint \in Standpoints, strategy \in Strategies :
          initializeSearch(topic, standpoint, strategy)
    \/ resetSearch
    \/ \E userMessage \in TurnMessages : SubmitMessage(userMessage)
    \/ \E response \in TurnResponses, isQuestion \in BOOLEAN, isClear \in BOOLEAN :
          Classified(response, isQuestion, isClear)
    \/ \E snippets \in BackendResults, enableScoreFiltering \in BOOLEAN :
          RetrievalSucceeded(snippets, enableScoreFiltering)
    \/ RetrievalFailed
    \/ Abort
    \/ StreamUpdate
    \/ StreamEnded

Spec == Init /\ [][Next]_vars

\* ------------------------------------------- keyword evaluator, alone

NoProgram ==
    /\ isEnabled = FALSE
    /\ searchState = None
    /\ isLoading = FALSE
    /\ error = None
    /\ pc = "idle"
    /\ turn = IdleTurn
    /\ pre = NoInterference

KeywordInputs ==
    [userMessage : Messages, strategy : Strategies,
     clarificationState : ClarificationStates, needsFactualSupport : BOOLEAN]

InitKeyword ==
    /\ NoProgram
    /\ inp \in KeywordInputs
    /\ out = None

EvaluateKeywords ==
    /\ out = None
    /\ out' = Some(shouldTriggerRAGWithKeywords(inp.userMessage, inp.strategy,
                       inp.clarificationState, inp.needsFactualSupport))
    /\ UNCHANGED <<storeVars, turnVars, inp>>

NextKeyword == EvaluateKeywords

SpecKeyword == InitKeyword /\ [][NextKeyword]_vars

\* C3: a message that matches the clear-opinion pattern makes the keyword
\* evaluator return false, whatever the strategy, the clarification state,
\* needsFactualSupport and the other patterns it matches.
C3_OpinionSuppresses ==
    (out # None /\ isExpressingClearOpinion(inp.userMessage)) => out[1] = FALSE

C3_Witness ==
    /\ out # None
    /\ isExpressingClearOpinion(inp.userMessage)
    /\ isAskingForEvidence(inp.userMessage)
    /\ inp.strategy = "suggestion"
    /\ inp.needsFactualSupport

\* ------------------------------------------------ trigger classifier, alone

\* One message per outcome of the keyword rules: no pattern and short, no
\* pattern and long, opinion only, evidence only, opinion and evidence.
TriggerMessages ==
    { <<"ok">>, <<"ok", "ok">>, <<"just", "think">>, <<"what", "evidence">>,
      <<"just", "want", "evidence">> }

TriggerInputs ==
    [userMessage : TriggerMessages, strategy : Strategies,
     clarificationState : ClarificationStates, needsFactualSupport : BOOLEAN,
     llmId : {TRUE}, response : {None} \cup {Some(r) : r \in Responses}]
    \cup
    [userMessage : TriggerMessages, strategy : Strategies,
     clarificationState : ClarificationStates, needsFactualSupport : BOOLEAN,
     llmId : {FALSE}, response : {None}]

InitTrigger ==
    /\ NoProgram
    /\ inp \in TriggerInputs
    /\ out = None

CallShouldTrigger ==
    /\ out = None
    /\ out' = Some(shouldTriggerRAG(inp.userMessage, inp.strategy, inp.clarificationState,
                       inp.needsFactualSupport, inp.llmId, inp.response))
    /\ UNCHANGED <<storeVars, turnVars, inp>>

NextTrigger == CallShouldTrigger

SpecTrigger == InitTrigger /\ [][NextTrigger]_vars

KeywordResult ==
    shouldTriggerRAGWithKeywords(inp.userMessage, inp.strategy,
                                 inp.clarificationState, inp.needsFactualSupport)

\* A response in which no JSON object can be parsed and no true / false
\* literal occurs.
CannotInterpret(content) ==
    /\ \A i \in 1..Len(content) : \A j \in i..Len(content) :
           ~IsJsonValue(SubSeq(content, i, j))
    /\ \A i \in 1..Len(content) : content[i] \notin {"true", "false", "True"}

\* C7: with a model handle supplied, shouldTriggerRAG never throws, and when
\* the model call fails or its response cannot be interpreted the result is
\* the keyword evaluator's for the same arguments.
C7_NeverThrows ==
    (out # None /\ inp.llmId) =>
        /\ ~out[1].threw
        /\ (inp.response = None \/ CannotInterpret(inp.response[1]))
               => out[1].value = KeywordResult

C7_Witness ==
    /\ out # None
    /\ inp.llmId
    /\ inp.response = Some(<<"{", "shouldTrigger:", "}">>)
    /\ KeywordResult = TRUE
    /\ out[1].value = TRUE

\* ------------------------------------------------------ evidence filters, alone

FilterInputs == [snippets : SnippetLists, standpoint : Standpoints, minScore : Scores]

InitFilter ==
    /\ NoProgram
    /\ inp \in FilterInputs
    /\ out = None

ApplyScoreFilter ==
    /\ out = None
    /\ out' = Some([op |-> "score", passes |-> 1, given |-> inp.snippets,
                    result |-> filterSnippetsByScore(inp.snippets, inp.minScore)])
    /\ UNCHANGED <<storeVars, turnVars, inp>>

\* The filter applied to its own result, with the same threshold.
ApplyScoreFilterAgain ==
    /\ out # None
    /\ out[1].op = "score"
    /\ out[1].passes = 1
    /\ out' = Some([op |-> "score", passes |-> 2, given |-> out[1].result,
                    result |-> filterSnippetsByScore(out[1].result, inp.minScore)])
    /\ UNCHANGED <<storeVars, turnVars, inp>>

ApplyStandpointFilter ==
    /\ out = None
    /\ out' = Some([op |-> "standpoint", passes |-> 1, given |-> inp.snippets,
                    result |-> filterSnippetsByStandpoint(inp.snippets, inp.standpoint)])
    /\ UNCHANGED <<storeVars, turnVars, inp>>

ApplyStandpointFilterMetadata ==
    /\ out = None
    /\ out' = Some([op |-> "metadata", passes |-> 1, given |-> inp.snippets,
                    result |-> filterSnippetsByStandpointMetadata(inp.snippets,
                                                                  inp.standpoint)])
    /\ UNCHANGED <<storeVars, turnVars, inp>>

\* retrieveContextForQuery on the backend's answer; scoreFiltering is
\* CONVERSATIONAL_SEARCH_DEFAULTS.enableScoreFiltering.
ApplyRetrieve(enableScoreFiltering) ==
    /\ out = None
    /\ out' = Some([op |-> "retrieve", passes |-> 1, given |-> inp.snippets,
                    scoreFiltering |-> enableScoreFiltering,
                    result |-> retrieveContextForQuery(inp.snippets, inp.standpoint,
                                                       enableScoreFiltering)])
    /\ UNCHANGED <<storeVars, turnVars, inp>>

NextFilter ==
    \/ ApplyScoreFilter
    \/ ApplyScoreFilterAgain
    \/ ApplyStandpointFilter
    \/ ApplyStandpointFilterMetadata
    \/ \E enableScoreFiltering \in BOOLEAN : ApplyRetrieve(enableScoreFiltering)

SpecFilter == InitFilter /\ [][NextFilter]_vars

\* The standpoint tag of a snippet: the metadata stance, else the stance in
\* the file name, else "" (untagged).
StandpointTag(s) == IF s.stance # "" THEN s.stance ELSE stanceMatch(s.name)

Untagged(list) == SelectSeq(list, LAMBDA s : StandpointTag(s) = "")

\* C4: the standpoint filter keeps every untagged snippet, for a supporting
\* and for an opposing session alike, and keeps a tagged snippet only when its
\* tag is the session's standpoint.
C4_UntaggedKept ==
    (out # None /\ out[1].op = "standpoint") =>
        /\ Untagged(out[1].result) = Untagged(out[1].given)
        /\ \A i \in 1..Len(out[1].result) :
               StandpointTag(out[1].result[i]) \in {"", inp.standpoint}

\* C5: score filtering is idempotent: filtering an already filtered list with
\* the same threshold returns it unchanged, elements and order.
C5_ScoreFilterIdempotent ==
    (out # None /\ out[1].op = "score" /\ out[1].passes = 2) =>
        out[1].result = out[1].given

C5_Witness ==
    /\ out # None
    /\ out[1].op = "score"
    /\ out[1].passes = 2
    /\ Len(out[1].result) = 1
    /\ Len(inp.snippets) = 2
    /\ inp.snippets[1].score = inp.minScore
    /\ inp.snippets[2].score < inp.minScore

\* ------------------------------------------------------ prompt composer, alone

PromptInputs ==
    [topic : Topics, standpoint : Standpoints, strategy : Strategies,
     retrievedContext : SnippetLists]

InitPrompt ==
    /\ NoProgram
    /\ inp \in PromptInputs
    /\ out = None

Compose ==
    /\ out = None
    /\ out' = Some(generateSystemPrompt(inp, inp.retrievedContext))
    /\ UNCHANGED <<storeVars, turnVars, inp>>

NextPrompt == Compose

SpecPrompt == InitPrompt /\ [][NextPrompt]_vars

IndexOf(prompt, block) == CHOOSE i \in 1..Len(prompt) : prompt[i] = block

\* C6: the composed prompt holds the standpoint-concealment sentence,
\* unmodified, after the mission block and before the evidence section,
\* whatever the standpoint, strategy, topic and evidence.
C6_ConcealmentRulePresent ==
    out # None =>
        \E i \in 1..Len(out[1]) :
            /\ out[1][i] = STANDPOINT_CONCEALMENT_RULE
            /\ i > IndexOf(out[1], "Your Mission: - Standpoint: You ")
            /\ i < IndexOf(out[1], TemplateContextIntro[1])

\* ---------------------------------------------------- configuration, alone

\* A JavaScript number: NaN, or a value.  Every comparison with NaN is false.
NaN == [nan |-> TRUE, val |-> 0]

Num(n) == [nan |-> FALSE, val |-> n]

lessThan(a, b) == ~a.nan /\ ~b.nan /\ a.val < b.val

greaterThan(a, b) == ~a.nan /\ ~b.nan /\ a.val > b.val

\* CONVERSATIONAL_SEARCH_DEFAULTS
topKMin == 1

topKMax == 50

snippetSizeMin == 512

snippetSizeMax == 4096

TopKMessage == "Top K must be between 1 and 50"

SnippetSizeMessage == "Snippet Size must be between 512 and 4096"

\* The validation that stops at the first value out of bounds.
validateConfig_FirstErrorOnly(topK, snippetSize) ==
    IF lessThan(topK, Num(topKMin)) \/ greaterThan(topK, Num(topKMax))
    THEN Return([valid |-> FALSE, errors |-> <<TopKMessage>>])
    ELSE IF \/ lessThan(snippetSize, Num(snippetSizeMin))
            \/ greaterThan(snippetSize, Num(snippetSizeMax))
    THEN Return([valid |-> FALSE, errors |-> <<SnippetSizeMessage>>])
    ELSE Return([valid |-> TRUE, errors |-> <<>>])

validateConfig(topK, snippetSize) ==
    LET errors1 == IF lessThan(topK, Num(topKMin)) \/ greaterThan(topK, Num(topKMax))
                   THEN <<TopKMessage>> ELSE <<>>
        errors  == IF \/ lessThan(snippetSize, Num(snippetSizeMin))
                      \/ greaterThan(snippetSize, Num(snippetSizeMax))
                   THEN Append(errors1, SnippetSizeMessage) ELSE errors1
    IN  Return([valid |-> Len(errors) = 0, errors |-> errors])

TopKValues == {NaN} \cup {Num(n) : n \in {-1, 0, 1, 2, 5, 49, 50, 51, 100}}

SnippetSizeValues ==
    {NaN} \cup {Num(n) : n \in {0, 511, 512, 513, 1280, 4095, 4096, 4097}}

ConfigInputs == [topK : TopKValues, snippetSize : SnippetSizeValues]

InitConfig ==
    /\ NoProgram
    /\ inp \in ConfigInputs
    /\ out = None

CallValidateConfig ==
    /\ out = None
    /\ out' = Some(validateConfig(inp.topK, inp.snippetSize))
    /\ UNCHANGED <<storeVars, turnVars, inp>>

NextConfig == CallValidateConfig

SpecConfig == InitConfig /\ [][NextConfig]_vars

\* ------------------------------------------------------- study-id store

CONVERSATION_TOPICS ==
    << "How should Boston respond to the Mass & Cass crisis?",
       "Should Cell Phones Be Banned in Schools?" >>

\* Values of Math.random(), in tenths: the least, the two around 0.5 and 0.9.
RandomValues == {0, 4, 5, 9}

RandomDraws == RandomValues \X RandomValues \X RandomValues

\* The object literal {[k1]: v1, [k2]: v2}: the later key wins.
objectOf(k1, v1, k2, v2) == (k2 :> v2) @@ (k1 :> v1)

\* The configurations with the second strategy not flipped.
generateTopicConfigs_SameStrategy(draws) ==
    LET topics == CONVERSATION_TOPICS
        firstStandpoint == IF draws[1] < 5 THEN "supporting" ELSE "opposing"
        firstStrategy == IF draws[2] < 5 THEN "suggestion" ELSE "clarification"
        secondStandpoint == IF firstStandpoint = "supporting" THEN "opposing"
                            ELSE "supporting"
        useFirstConfigForFirstTopic == draws[3] < 5
        first == [standpoint |-> firstStandpoint, strategy |-> firstStrategy]
        second == [standpoint |-> secondStandpoint, strategy |-> firstStrategy]
    IN  objectOf(topics[1], IF useFirstConfigForFirstTopic THEN first ELSE second,
                 topics[2], IF useFirstConfigForFirstTopic THEN second ELSE first)

\* draws are the values of the three calls of Math.random(), in order.
generateTopicConfigs(draws) ==
    LET topics == CONVERSATION_TOPICS
        firstStandpoint == IF draws[1] < 5 THEN "supporting" ELSE "opposing"
        firstStrategy == IF draws[2] < 5 THEN "suggestion" ELSE "clarification"
        secondStandpoint == IF firstStandpoint = "supporting" THEN "opposing"
                            ELSE "supporting"
        secondStrategy == IF firstStrategy = "suggestion" THEN "clarification"
                          ELSE "suggestion"
        useFirstConfigForFirstTopic == draws[3] < 5
        first == [standpoint |-> firstStandpoint, strategy |-> firstStrategy]
        second == [standpoint |-> secondStandpoint, strategy |-> secondStrategy]
    IN  objectOf(topics[1], IF useFirstConfigForFirstTopic THEN first ELSE second,
                 topics[2], IF useFirstConfigForFirstTopic THEN second ELSE first)

StudyIds == {"P01", "P02"}

\* useStudyIdStore: out is the store, inp the draws of the last generation.
InitStudy ==
    /\ NoProgram
    /\ inp = None
    /\ out = [studyId |-> None, topicConfig |-> None]

generateTopicConfig(draws) ==
    /\ out' = [out EXCEPT !.topicConfig = Some(generateTopicConfigs(draws))]
    /\ inp' = Some(draws)
    /\ UNCHANGED <<storeVars, turnVars>>

setStudyId(studyId, draws) ==
    /\ out' = [studyId |-> Some(studyId),
               topicConfig |-> Some(generateTopicConfigs(draws))]
    /\ inp' = Some(draws)
    /\ UNCHANGED <<storeVars, turnVars>>

clearStudyId ==
    /\ out' = [studyId |-> None, topicConfig |-> None]
    /\ UNCHANGED <<storeVars, turnVars, inp>>

NextStudy ==
    \/ \E studyId \in StudyIds, draws \in RandomDraws : setStudyId(studyId, draws)
    \/ clearStudyId
    \/ \E draws \in RandomDraws : generateTopicConfig(draws)

SpecStudy == InitStudy /\ [][NextStudy]_vars

\* ------------------------------------------------------- claims on the turn

\* The step of a turn that calls updateSearchHistory and records the turn.
RecordStep == pc = "stream" /\ pc' = "idle" /\ RecordsTurn

IsReadyForSearch(session) ==
    /\ session # None
    /\ session[1].strategy = "clarification"
    /\ session[1].clarificationState # None
    /\ session[1].clarificationState[1].isReadyForSearch

\* C1: in a clarification session, once clarificationState.isReadyForSearch is
\* true, every recording of a turn (updateHistory) leaves it true, whatever
\* the turn's actionTaken.
C1_ReadyStaysReady ==
    [][(RecordStep /\ IsReadyForSearch(searchState)) => IsReadyForSearch(searchState')]_vars

\* A turn that only asked a clarification question was recorded in a session
\* that was ready before it.
C1_Witness ==
    /\ pc = "idle"
    /\ ~pre.interfered
    /\ IsReadyForSearch(pre.session)
    /\ IsReadyForSearch(searchState)
    /\ turn.actionTaken # None
    /\ turn.actionTaken[1].askedClarification
    /\ Len(searchState[1].dialogueHistory) = Len(pre.session[1].dialogueHistory) + 2

\* C2: recording a turn leaves the previous dialogueHistory as it was, in
\* order, and appends exactly two entries: the "User: " entry of the turn's
\* message, then the "Assistant: " entry of the turn's text.
C2_AppendsUserThenAssistant ==
    [][RecordStep =>
          /\ searchState' # None
          /\ searchState'[1].dialogueHistory =
                searchState[1].dialogueHistory
                  \o << <<"User: ", turn.lastUserMessage>>,
                        <<"Assistant: ", turn.assistantResponseText>> >>]_vars

\* A second turn, one with a search, recorded after the first.
C2_Witness ==
    /\ pc = "idle"
    /\ searchState # None
    /\ Len(searchState[1].dialogueHistory) = 4
    /\ searchState[1].dialogueHistory[3] = <<"User: ", <<"what", "evidence">> >>
    /\ searchState[1].dialogueHistory[4] = <<"Assistant: ", <<"ok">> >>
    /\ turn.actionTaken # None
    /\ turn.actionTaken[1].searched
    /\ turn.retrievedContextForState # None

ContainsEvidence(prompt) == \E i \in 1..Len(prompt) : prompt[i] = "snippet.content"

\* C8: when the policy decided to search and the retrieval failed, the turn
\* goes on: the assistant is run with the baseline system message, which
\* holds no retrieved evidence.
C8_FailedRetrievalFallsBack ==
    turn.retrieval = "failed" =>
        /\ pc \in {"stream", "idle"}
        /\ turn.enhancedHistory = PurposePrompt
        /\ ~ContainsEvidence(turn.enhancedHistory)
        /\ turn.searchResult = Some(NotEnhanced)

\* The assistant has answered in a turn whose retrieval failed, in a session
\* that holds evidence of an earlier turn.
C8_Witness ==
    /\ turn.retrieval = "failed"
    /\ pc = "stream"
    /\ turn.assistantResponseText # <<>>
    /\ error # None
    /\ searchState # None
    /\ searchState[1].lastRetrievedContext # None
    /\ searchState[1].lastRetrievedContext[1] # <<>>

\* C9: a turn cancelled during the classification, the retrieval or the
\* stream leaves the session as it was before the turn: no counter of stats
\* incremented, nothing appended to dialogueHistory, lastRetrievedContext and
\* clarificationState unchanged.
C9_CancelledTurnLeavesSession ==
    (pc = "idle" /\ turn.aborted /\ ~pre.interfered) => searchState = pre.session

FreshClarification(session) ==
    /\ session # None
    /\ session[1].strategy = "clarification"
    /\ session[1].clarificationState = None

AskedClarificationOnly ==
    [searched |-> FALSE, askedClarification |-> TRUE, providedSuggestion |-> FALSE]

\* C10: in a clarification session with no clarificationState yet, the
\* decision on any message is actionTaken = {searched: false,
\* askedClarification: true, providedSuggestion: false}, and the turn makes
\* no retrieval call.
C10_FreshClarificationAsks ==
    [][(pc = "classify" /\ pc' # "classify" /\ FreshClarification(turn.state)) =>
          /\ pc' = "stream"
          /\ turn'.retrieval = "none"
          /\ turn'.searchResult # None
          /\ turn'.searchResult[1].actionTaken = Some(AskedClarificationOnly)
          /\ ~ContainsEvidence(turn'.enhancedHistory)]_vars

\* The decision made on a message that asks for evidence.
C10_Witness ==
    /\ pc = "stream"
    /\ ~pre.interfered
    /\ FreshClarification(searchState)
    /\ turn.lastUserMessage = <<"what", "evidence">>
    /\ turn.retrieval = "none"
    /\ turn.searchResult # None
    /\ turn.searchResult[1].actionTaken = Some(AskedClarificationOnly)

\* ------------------------------------------------- claims on the decision

\* The step in which determineConversationAction answers and its action is
\* executed.
DecisionStep == pc = "classify" /\ pc' # "classify"

\* The step in which performSearch returns with evidence.
SearchReturns == pc = "retrieve" /\ pc' = "stream" /\ turn'.retrieval = "ok"

SuggestionWithoutEvidence(session) ==
    /\ session # None
    /\ session[1].strategy = "suggestion"
    /\ \/ session[1].lastRetrievedContext = None
       \/ session[1].lastRetrievedContext[1] = <<>>

Substantial(userMessage) == JoinedLength(trim(userMessage)) >= MinSubstantialLength

Searched(result) ==
    /\ result # None
    /\ result[1].actionTaken # None
    /\ result[1].actionTaken[1].searched

\* C11: in a suggestion session that holds no retrieved evidence, a message
\* of trimmed length 5 or more makes the decision search without asking the
\* classifier, whatever the model would answer: the retrieval is started, and
\* when it returns the turn's actionTaken has searched = true.
C11_BootstrapSearches ==
    [][/\ (DecisionStep /\ SuggestionWithoutEvidence(turn.state)
                        /\ Substantial(turn.lastUserMessage)) =>
              /\ turn'.classifierResult = None
              /\ IF searchState = None
                 THEN turn'.searchResult = Some(NotEnhanced)
                 ELSE pc' = "retrieve" /\ turn'.retrieval = "pending"
       /\ (SearchReturns /\ SuggestionWithoutEvidence(turn.state)) =>
              Searched(turn'.searchResult)]_vars

\* The first message of the default session has been searched for.
C11_Witness ==
    /\ pc = "stream"
    /\ turn.retrieval = "ok"
    /\ turn.classifierResult = None
    /\ Searched(turn.searchResult)
    /\ ~pre.interfered
    /\ pre.session # None
    /\ pre.session[1].strategy = "suggestion"
    /\ pre.session[1].lastRetrievedContext = None
    /\ turn.lastUserMessage = <<"what", "evidence">>

\* The step in which processUserMessageWithSearch returns an actionTaken.
DecideReturns ==
    /\ pc \in {"classify", "retrieve"}
    /\ pc' = "stream"
    /\ turn'.searchResult # None
    /\ turn'.searchResult[1].actionTaken # None

\* C12: in a suggestion session every turn's actionTaken has
\* providedSuggestion = true, also when the turn searched, and the session's
\* suggestionCount goes up by one in every turn.
C12_SuggestionAlwaysProvided ==
    [][(DecideReturns /\ turn.state[1].strategy = "suggestion") =>
          /\ turn'.searchResult[1].actionTaken[1].providedSuggestion
          /\ (~pre.interfered /\ searchState' # None) =>
                searchState'[1].stats.suggestionCount
                    = pre.session[1].stats.suggestionCount + 1]_vars

\* The AWAITING state of a clarification session.
Awaiting(session) ==
    /\ session # None
    /\ session[1].strategy = "clarification"
    /\ session[1].clarificationState # None
    /\ session[1].clarificationState[1].isAwaitingClarification
    /\ ~session[1].clarificationState[1].isReadyForSearch

StatsStep ==
    /\ pc # "stream"
    /\ pc' = "stream"
    /\ JoinedLength(turn'.lastUserMessage) # 0
    /\ ~pre'.interfered
    /\ pre'.session # None
    /\ searchState' # None

\* Any other step of a turn in such a session.
OtherTurnStep ==
    /\ pc' # pc
    /\ ~StatsStep
    /\ ~pre'.interfered
    /\ searchState # None
    /\ searchState' # None

Increment(flag) == IF turn'.actionTaken # None /\ turn'.actionTaken[1][flag] THEN 1 ELSE 0

\* C14: a turn adds exactly one to conversationTurns, whatever its action and
\* also when its retrieval failed; it adds one to searchTriggerCount,
\* clarificationQuestionCount and suggestionCount exactly when the matching
\* flag of its actionTaken is true and nothing otherwise; no other step of a
\* turn changes the stats, so no counter ever decreases.
C14_StatsCountTurns ==
    [][/\ StatsStep =>
              LET old == pre'.session[1].stats
                  new == searchState'[1].stats
              IN  /\ new.conversationTurns = old.conversationTurns + 1
                  /\ new.searchTriggerCount = old.searchTriggerCount + Increment("searched")
                  /\ new.clarificationQuestionCount
                        = old.clarificationQuestionCount + Increment("askedClarification")
                  /\ new.suggestionCount
                        = old.suggestionCount + Increment("providedSuggestion")
       /\ OtherTurnStep => searchState'[1].stats = searchState[1].stats]_vars

\* A turn whose retrieval failed has been counted and recorded after a turn
\* that searched.
C14_Witness ==
    /\ pc = "idle"
    /\ ~pre.interfered
    /\ turn.retrieval = "failed"
    /\ turn.assistantResponseText # <<>>
    /\ searchState # None
    /\ Len(searchState[1].dialogueHistory) = 4
    /\ searchState[1].stats.conversationTurns = 2
    /\ searchState[1].stats.searchTriggerCount = 1

Config(session) == <<session[1].topic, session[1].standpoint, session[1].strategy>>

\* C15: sessions do not affect each other.  While the search of one
\* session's turn is in flight and the store holds another session (one of
\* another standpoint or strategy, started meanwhile), the return of that
\* search leaves the other session as it is.
C15_SessionsIndependent ==
    [][(/\ pc = "retrieve"
        /\ pc' = "stream"
        /\ searchState # None
        /\ Config(searchState) # Config(turn.searchStateAtSearch)) =>
          searchState' = searchState]_vars

\* C16: topic, standpoint and strategy of a session never change: recording a
\* turn and writing a turn's stats store a session with the three values the
\* store's session had, and performSearch stores one with the three values of
\* the session it was called on.
C16_ConfigurationKept ==
    [][/\ RecordStep => Config(searchState') = Config(searchState)
       /\ SearchReturns => Config(searchState') = Config(turn.searchStateAtSearch)
       /\ (pc # "stream" /\ pc' = "stream" /\ ~SearchReturns /\ searchState # None) =>
              /\ searchState' # None
              /\ Config(searchState') = Config(searchState)]_vars

\* A turn with a search has been recorded in an opposing clarification session.
C16_Witness ==
    /\ pc = "idle"
    /\ ~pre.interfered
    /\ searchState # None
    /\ Config(searchState) = <<DefaultTopic, "opposing", "clarification">>
    /\ pre.session # None
    /\ Config(pre.session) = Config(searchState)
    /\ turn.retrieval = "ok"
    /\ Len(searchState[1].dialogueHistory) = 4
    /\ searchState[1].stats.searchTriggerCount = 1

TurnStep == pc' # pc \/ (pc # "idle" /\ turn' # turn)

\* C18: across a step of a turn the session's lastRetrievedContext changes
\* only if the turn's search has returned evidence: the steps of a turn that
\* did not search, and of a turn whose retrieval failed, leave it as it was.
C18_ContextChangesOnlyBySearch ==
    [][(/\ TurnStep
        /\ searchState # None
        /\ searchState' # None
        /\ searchState'[1].lastRetrievedContext # searchState[1].lastRetrievedContext)
          => /\ turn'.retrieval = "ok"
             /\ Searched(turn'.searchResult)
             /\ searchState'[1].lastRetrievedContext = Some(turn'.searchResult[1].context)]_vars

\* A turn whose retrieval failed has been recorded in a session that holds
\* evidence of an earlier turn.
C18_Witness ==
    /\ pc = "idle"
    /\ RecordsTurn
    /\ turn.retrieval = "failed"
    /\ ~pre.interfered
    /\ pre.session # None
    /\ pre.session[1].lastRetrievedContext # None
    /\ pre.session[1].lastRetrievedContext[1] # <<>>
    /\ searchState[1].lastRetrievedContext = pre.session[1].lastRetrievedContext
    /\ Len(searchState[1].dialogueHistory) = Len(pre.session[1].dialogueHistory) + 2

\* ------------------------------------------------ claims on the classifier

\* Stage 1 of the interpretation: the brace-delimited span of the response
\* parsed as JSON; None when there is no span or it is not valid JSON.
ParsedObject(content) ==
    LET span == jsonMatch(content)
    IN  IF span # None /\ IsJsonValue(span[1])
        THEN Some(parsedShouldTrigger(span[1]).value)
        ELSE None

\* C19: the model's response is interpreted by a chain of three stages: the
\* answer is the parsed JSON object's; when no object can be parsed, also
\* when a brace-delimited span is found that is not valid JSON, it is the
\* true / false literal the response contains; only when there is none, or
\* the call failed, it is the keyword evaluator's.
C19_ThreeStageChain ==
    (out # None /\ inp.llmId) =>
        out[1] = Return(
            IF inp.response = None THEN KeywordResult
            ELSE LET content == inp.response[1] IN
                 IF ParsedObject(content) # None THEN ParsedObject(content)[1]
                 ELSE IF includesLower(content, "true") THEN TRUE
                 ELSE IF includesLower(content, "false") THEN FALSE
                 ELSE KeywordResult)

\* ------------------------------------------- claims on the recorded action

\* isReadyForSearch of a session, false while it has no clarificationState.
ReadyFlag(session) ==
    session[1].clarificationState # None
        /\ session[1].clarificationState[1].isReadyForSearch

DecidedToSearch ==
    \/ turn'.classifierResult = Some(TRUE)
    \/ /\ turn'.classifierResult = None
       /\ SuggestionWithoutEvidence(turn.state)
       /\ Substantial(turn.lastUserMessage)

\* C21: within a turn the classification and the retrieval never overlap:
\* while the decision is awaited no retrieval has been issued; the retrieval
\* is issued by the step in which the decision returns, only when the
\* decision is to search; and once it has been issued it is not issued
\* again in that turn.
C21_RetrievalAfterDecision ==
    [][/\ pc = "classify" => turn.retrieval = "none"
       /\ (turn'.retrieval = "pending" /\ turn.retrieval # "pending") =>
              /\ DecisionStep
              /\ turn.retrieval = "none"
              /\ DecidedToSearch
       /\ (pc # "idle" /\ turn.retrieval # "none") =>
              /\ pc' # "classify"
              /\ turn.retrieval # "pending" => turn'.retrieval = turn.retrieval]_vars

\* The classifier has answered true and the retrieval issued after it has
\* returned.
C21_Witness ==
    /\ pc = "stream"
    /\ turn.retrieval = "ok"
    /\ turn.classifierResult = Some(TRUE)
    /\ Searched(turn.searchResult)

\* ------------------------------------------ claims on the keyword evaluator

\* The message matches none of the opinion, evidence-request and uncertainty
\* patterns.
MatchesNoPattern(userMessage) ==
    /\ ~isExpressingClearOpinion(userMessage)
    /\ ~isAskingForEvidence(userMessage)
    /\ ~isExpressingUncertainty(userMessage)

\* C22: for a message that matches none of the three patterns, the keyword
\* evaluator under the clarification strategy returns true exactly when a
\* clarificationState is supplied whose isReadyForSearch is true, whatever
\* needsFactualSupport and the length of the message.
C22_ClarificationNeedsReady ==
    (out # None /\ inp.strategy = "clarification" /\ MatchesNoPattern(inp.userMessage)) =>
        out[1] = (/\ inp.clarificationState # None
                  /\ inp.clarificationState[1].isReadyForSearch)

\* A short message in a session that is ready and still awaiting.
C22_Witness ==
    /\ out # None
    /\ inp.strategy = "clarification"
    /\ MatchesNoPattern(inp.userMessage)
    /\ inp.userMessage = <<"ok">>
    /\ ~inp.needsFactualSupport
    /\ inp.clarificationState =
          Some([isAwaitingClarification |-> TRUE, isReadyForSearch |-> TRUE])
    /\ out[1] = TRUE

\* C23: for a message that matches none of the three patterns, the keyword
\* evaluator under the suggestion strategy returns true exactly when
\* needsFactualSupport is true or the trimmed message has 5 characters or
\* more, whatever clarificationState is passed.
C23_SuggestionSupportOrLength ==
    (out # None /\ inp.strategy = "suggestion" /\ MatchesNoPattern(inp.userMessage)) =>
        /\ out[1] = (\/ inp.needsFactualSupport
                     \/ JoinedLength(trim(inp.userMessage)) >= 5)
        /\ out[1] = shouldTriggerRAGWithKeywords(inp.userMessage, "suggestion", None,
                                                 inp.needsFactualSupport)

\* A message of exactly five characters once trimmed, with a clarification
\* state that is awaiting and not ready.
C23_Witness ==
    /\ out # None
    /\ inp.strategy = "suggestion"
    /\ inp.userMessage = <<"ok", "ok", "">>
    /\ MatchesNoPattern(inp.userMessage)
    /\ ~inp.needsFactualSupport
    /\ inp.clarificationState =
          Some([isAwaitingClarification |-> TRUE, isReadyForSearch |-> FALSE])
    /\ out[1] = TRUE

\* ------------------------------------------------- claims on the retrieval

\* The snippets of list that pass the score filter, when it is enabled, and
\* the standpoint filter: untagged, or tagged with the session's standpoint.
PassingSnippets(list, scoreFiltering, standpoint) ==
    SelectSeq(list, LAMBDA s :
        /\ scoreFiltering => s.score >= DefaultMinScore
        /\ StandpointTag(s) \in {"", standpoint})

\* C24: the list retrieveContextForQuery returns is exactly the backend's
\* snippets that pass the score filter (score >= threshold, when enabled) and
\* the standpoint filter, in the backend's order, each once and unaltered;
\* the score filter applied to scores 0.9 and 0.5 with threshold 0.7 returns
\* the first snippet alone.
C24_RetrieveExactSubsequence ==
    out # None =>
        /\ out[1].op = "retrieve" =>
              out[1].result = PassingSnippets(out[1].given, out[1].scoreFiltering,
                                              inp.standpoint)
        /\ (/\ out[1].op = "score"
            /\ out[1].passes = 1
            /\ Len(out[1].given) = 2
            /\ out[1].given[1].score = 9
            /\ out[1].given[2].score = 5
            /\ inp.minScore = 7) => out[1].result = <<out[1].given[1]>>

\* ------------------------------------------------ claims on the configuration

\* The number is outside the bounds: below the least or above the greatest
\* value allowed.  NaN is neither.
OutsideBounds(n, min, max) == lessThan(n, Num(min)) \/ greaterThan(n, Num(max))

\* C25: validateConfig never throws; for every topK and snippetSize it
\* returns one message for each of the two that is outside its bounds (topK
\* 1 to 50, snippetSize 512 to 4096, bounds included), both messages when
\* both are outside, and valid is true exactly when the list is empty.
C25_ValidateConfigListsAll ==
    out # None =>
        /\ ~out[1].threw
        /\ out[1].value.errors =
              (IF OutsideBounds(inp.topK, 1, 50) THEN <<TopKMessage>> ELSE <<>>)
              \o (IF OutsideBounds(inp.snippetSize, 512, 4096)
                  THEN <<SnippetSizeMessage>> ELSE <<>>)
        /\ out[1].value.valid = (out[1].value.errors = <<>>)

\* Both values are just outside their bounds and both messages are returned.
C25_Witness ==
    /\ out # None
    /\ inp.topK = Num(51)
    /\ inp.snippetSize = Num(511)
    /\ out[1].value.errors = <<TopKMessage, SnippetSizeMessage>>
    /\ ~out[1].value.valid

\* ------------------------------------------------ claims on the study store

\* C26: whatever the three random draws, the generated configuration gives
\* the two conversation topics opposite standpoints and opposite strategies:
\* one is supporting and the other opposing, one has the suggestion strategy
\* and the other the clarification strategy.
C26_TopicsGetOppositeConfigs ==
    out.topicConfig # None =>
        LET config == out.topicConfig[1]
            first  == config[CONVERSATION_TOPICS[1]]
            second == config[CONVERSATION_TOPICS[2]]
        IN  /\ DOMAIN config = {CONVERSATION_TOPICS[1], CONVERSATION_TOPICS[2]}
            /\ {first.standpoint, second.standpoint} = Standpoints
            /\ {first.strategy, second.strategy} = Strategies

\* The draws 0.9, 0.0, 0.5: the first configuration is opposing with
\* suggestion, and the first topic gets the second one.
C26_Witness ==
    /\ out.studyId # None
    /\ out.topicConfig # None
    /\ inp = Some(<<9, 0, 5>>)
    /\ out.topicConfig[1][CONVERSATION_TOPICS[1]] =
          [standpoint |-> "supporting", strategy |-> "clarification"]
    /\ out.topicConfig[1][CONVERSATION_TOPICS[2]] =
          [standpoint |-> "opposing", strategy |-> "suggestion"]

\* ------------------------------------------ claims on clarification sessions

\* C27: in a clarification session no search runs before a clarification
\* question has been asked: in every reachable state searchTriggerCount > 0
\* implies clarificationQuestionCount > 0.
C27_NoSearchBeforeQuestion ==
    (searchState # None /\ searchState[1].strategy = "clarification") =>
        (searchState[1].stats.searchTriggerCount > 0
            => searchState[1].stats.clarificationQuestionCount > 0)

\* C28: between turns the session's dialogueHistory has exactly twice as many
\* entries as stats.conversationTurns counts turns, also after a turn whose
\* assistant response is empty or whose stream was aborted.
C28_HistoryTwiceTurns ==
    (pc = "idle" /\ searchState # None) =>
        Len(searchState[1].dialogueHistory) = 2 * searchState[1].stats.conversationTurns

\* ------------------------------------------------- claims on the store

\* The fields of a session that a search does not write.
SessionProper(session) ==
    <<Config(session), session[1].dialogueHistory, session[1].clarificationState>>

\* C29: once resetSearch or setEnabled(false) has emptied the store,
\* searchState stays null until initializeSearch, also when a performSearch
\* that started earlier returns; and a performSearch that returns after
\* initializeSearch has started another session leaves that session in the
\* store, not the one it was called on.
C29_SearchKeepsResetAndNewSession ==
    [][/\ (searchState = None /\ searchState' # None) => pc' = pc
       /\ (/\ SearchReturns
           /\ searchState # None
           /\ searchState # turn.searchStateAtSearch) =>
              /\ searchState' # None
              /\ SessionProper(searchState') = SessionProper(searchState)]_vars

\* The session's clarificationState is present with the two flags given.
Flags(session, awaiting, ready) ==
    /\ session[1].clarificationState # None
    /\ session[1].clarificationState[1].isAwaitingClarification = awaiting
    /\ session[1].clarificationState[1].isReadyForSearch = ready

====
